---- MODULE Spec2Model ----
(***************************************************************************)
(* Model of the Transmission RPC client (package transmission): a Conn,    *)
(* its session probe (sessionId), the RPC transport (rpc) and the two      *)
(* typed operations Stats and Add, run by concurrent callers against a     *)
(* remote service that rotates its session token at will.                  *)
(*                                                                         *)
(* Strings that the code only compares or passes on (result strings,       *)
(* names, urls, error texts) are TLA+ strings; session tokens are          *)
(* sequences of characters so that trimming or case folding is visible.    *)
(* A Go error is the sequence of the pieces of its text; nil is << >>.     *)
(***************************************************************************)
EXTENDS Integers, Sequences, FiniteSets, TLC

\* ------------------------------------------------------------------ bounds
MaxCalls == 2      \* calls started on the Conn, over all callers
NumTokens == 2     \* distinct tokens the remote service rotates through
MaxTokLen == 2     \* longest header value fed to sessionId on its own
MaxValues == 2     \* most values of one header fed to sessionId on its own
MaxCount == 3      \* largest torrent count fed to String on its own

\* The callers (goroutines) that share the one Conn.
Procs == {"c1", "c2"}

\* ------------------------------------------------------------------ data
Chars == {"a", "A", " "}

\* All character sequences of length at most n.
RECURSIVE StrUpTo(_)
StrUpTo(n) ==
    IF n = 0 THEN {<< >>}
    ELSE LET shorter == StrUpTo(n - 1)
         IN  shorter \cup {Append(s, c) : s \in shorter, c \in Chars}

\* The i-th token the remote service hands out: i characters, never empty.
TokenOf(i) == [j \in 1..i |-> IF j % 2 = 1 THEN "a" ELSE "A"]

Endpoints == {"http://host:9091"}
Urls == {"magnet:x", "http://t/u.torrent"}
RpcPath == "/transmission/rpc"

NoErr == << >>
TransportErr == <<"transport">>
DecodeErr == <<"json">>

\* A Statistics value (part_000:19-22).
Statistics(dl, ul, n, act, paused) ==
    [DownloadSpeed |-> dl, UploadSpeed |-> ul, TorrentCount |-> n,
     ActiveTorrentCount |-> act, PausedTorrentcount |-> paused]

ZeroStatistics == Statistics(0, 0, 0, 0, 0)

\* Statistics the remote service may report.
StatsSamples == {Statistics(1048576, 0, 3, 1, 2), Statistics(-1, 2047, 0, 0, -2)}

\* The torrentAdded value (part_000:152-155) with every field zero.
ZeroAdded == [Id |-> 0, Name |-> "", HashString |-> ""]

AddedSamples == {[Id |-> 1, Name |-> "Ubuntu.iso", HashString |-> "abc123"],
                 [Id |-> 1, Name |-> "", HashString |-> ""]}

Results == {"success", "failure", "duplicate torrent"}

\* The "arguments" member of a response envelope: missing or {}, a
\* statistics object, or an object with a "torrent-added" member.
NoArguments == [shape |-> "none", stats |-> ZeroStatistics, added |-> ZeroAdded]
ArgumentsSet ==
    {NoArguments}
    \cup {[shape |-> "stats", stats |-> s, added |-> ZeroAdded] : s \in StatsSamples}
    \cup {[shape |-> "added", stats |-> ZeroStatistics, added |-> a] : a \in AddedSamples}

\* Response bodies: nil (no bytes), text that is not JSON, a JSON object
\* whose members have the wrong type, and JSON envelopes.
NilBody == [kind |-> "nil", hasResult |-> FALSE, result |-> "", arguments |-> NoArguments]
Garbage == [kind |-> "garbage", hasResult |-> FALSE, result |-> "", arguments |-> NoArguments]
Mistyped == [kind |-> "mistyped", hasResult |-> TRUE, result |-> "", arguments |-> NoArguments]
Envelope(hasResult, r, a) ==
    [kind |-> "object", hasResult |-> hasResult, result |-> r, arguments |-> a]
Envelopes ==
    {Envelope(TRUE, r, a) : r \in Results, a \in ArgumentsSet}
    \cup {Envelope(FALSE, "", NoArguments)}
Bodies == {Garbage, Mistyped} \cup Envelopes

\* A response header map, reduced to its X-Transmission-Session-Id entry:
\* whether the key is in the map, and the values stored under it.
Header(present, values) == [present |-> present, values |-> values]
NoHeader == Header(FALSE, << >>)

\* What client.Get hands back: a transport error, or a response.
GetResult(failed, hdr) == [failed |-> failed, header |-> hdr]
NoResponse == GetResult(FALSE, NoHeader)

\* What client.Do followed by ReadAll hands back for the POST.
PostResult(failed, status, body) == [failed |-> failed, status |-> status, body |-> body]
NoPostResponse == PostResult(FALSE, 0, NilBody)

\* ------------------------------------------------------------------ state
VARIABLES
    conn,       \* the Conn: [url]
    curTok,     \* remote service: index of the token it accepts now
    pc,         \* per caller: "idle", "get_wait", "get_ready", "post_wait",
                \*   "post_ready", "done"
    op,         \* per caller: "Stats" or "Add" (the operation last started)
    arg,        \* per caller: the url argument of Add ("" for Stats)
    calls,      \* calls started so far, over all callers
    getReq,     \* per caller: the probe GET request the current call sent
    getResp,    \* per caller: what client.Get returned in the current call
    sessId,     \* per caller: rpc's local sessId
    postReq,    \* per caller: the POST request the current call sent
    postResp,   \* per caller: what client.Do and ReadAll returned for it
    rpcRet,     \* per caller: what rpc returned to Stats/Add: [b, err]
    ret,        \* per caller: what Stats/Add returned
    trace,      \* per caller: the requests and replies of the current call
    accepted,   \* per caller: did the token of its last POST match the
                \*   service's token when the service read it
    fnIn,       \* input of sessionId checked on its own
    fnOut,      \* its output
    strIn,      \* the Statistics that String is checked on
    strOut      \* the text String returned for it

vars == <<conn, curTok, pc, op, arg, calls, getReq, getResp, sessId, postReq, postResp,
          rpcRet, ret, trace, accepted, fnIn, fnOut, strIn, strOut>>

callVars == <<conn, curTok, pc, op, arg, calls, getReq, getResp, sessId, postReq,
              postResp, rpcRet, ret, trace, accepted>>

\* ------------------------------------------------------------------ code
\* New (part_000:43-57): the Conn keeps the raw url.
New(rawurl) == [url |-> rawurl]

\* strings.TrimSpace, as far as leading blanks go.
RECURSIVE TrimLeft(_)
TrimLeft(s) == IF s # << >> /\ Head(s) = " " THEN TrimLeft(Tail(s)) ELSE s

\* sessionId, were it to tidy the header value before returning it.
sessionIdTrimmed(resp) ==
    IF resp.failed THEN [id |-> << >>, err |-> <<"transport">>]
    ELSE IF ~resp.header.present \/ Len(resp.header.values) < 1
         THEN [id |-> << >>, err |-> <<"transmission: sessionId not found">>]
         ELSE [id |-> TrimLeft(resp.header.values[1]), err |-> << >>]

\* sessionId (part_000:60-71), given what client.Get returned.
sessionId(resp) ==
    IF resp.failed THEN [id |-> << >>, err |-> TransportErr]
    ELSE IF ~resp.header.present \/ Len(resp.header.values) < 1
         THEN [id |-> << >>, err |-> <<"transmission: sessionId not found">>]
         ELSE [id |-> resp.header.values[1], err |-> NoErr]

\* json.Marshal of the request maps built by Stats (part_000:99) and Add
\* (part_000:120-126): the JSON object's keys and member values.
NoRequestArguments == [paused |-> FALSE, filename |-> ""]
StatsRequest ==
    [keys |-> {"method"}, method |-> "session-stats", arguments |-> NoRequestArguments]
\* Add's request, were the arguments map left out of it.
AddRequestNoArguments(u) ==
    [keys |-> {"method"}, method |-> "torrent-add",
     arguments |-> [paused |-> FALSE, filename |-> ""]]

\* Add's request, were the torrent added paused.
AddRequestPaused(u) ==
    [keys |-> {"method", "arguments"}, method |-> "torrent-add",
     arguments |-> [paused |-> TRUE, filename |-> u]]

AddRequest(u) ==
    [keys |-> {"method", "arguments"}, method |-> "torrent-add",
     arguments |-> [paused |-> FALSE, filename |-> u]]

RequestOf(o, u) == IF o = "Stats" THEN StatsRequest ELSE AddRequest(u)

\* The POST request, were the Header.Add line left out.
NewPostRequestNoHeader(c, id, js) ==
    [verb |-> "POST", target |-> <<c.url, "/transmission/rpc">>, token |-> << >>,
     body |-> js]

\* The GET request that client.Get builds (part_000:61).
NewGetRequest(c) == [verb |-> "GET", target |-> <<c.url, RpcPath>>]
NoGetRequest == [verb |-> "", target |-> <<"", "">>]

\* http.NewRequest plus Header.Add (part_000:83-88).
NewPostRequest(c, id, js) ==
    [verb |-> "POST", target |-> <<c.url, RpcPath>>, token |-> id, body |-> js]
NoRequest == [verb |-> "", target |-> <<"", "">>, token |-> << >>, body |-> StatsRequest]

\* rpc's return values (part_000:76-78, 90-94).
RpcFail(e) == [b |-> NilBody, err |-> e]
\* rpc's return, were it to turn a status other than 200 into an error.
RpcReadCheckStatus(resp) ==
    IF resp.failed THEN RpcFail(TransportErr)
    ELSE IF resp.status # 200 THEN RpcFail(<<"transmission: status">>)
         ELSE [b |-> resp.body, err |-> NoErr]

RpcRead(resp) == IF resp.failed THEN RpcFail(TransportErr)
                 ELSE [b |-> resp.body, err |-> NoErr]
NoRpcRet == [b |-> NilBody, err |-> NoErr]

\* json.Unmarshal into sessionStats, were the arguments member not
\* matched to the Arguments field.
UnmarshalSessionStatsNoArguments(b) ==
    IF b.kind # "object" THEN [err |-> DecodeErr, Result |-> "", Arguments |-> ZeroStatistics]
    ELSE [err |-> NoErr,
          Result |-> IF b.hasResult THEN b.result ELSE "",
          Arguments |-> ZeroStatistics]

\* json.Unmarshal into sessionStats (part_000:103-106, 113-116): members
\* that are missing keep their zero value.
UnmarshalSessionStats(b) ==
    IF b.kind # "object" THEN [err |-> DecodeErr, Result |-> "", Arguments |-> ZeroStatistics]
    ELSE [err |-> NoErr,
          Result |-> IF b.hasResult THEN b.result ELSE "",
          Arguments |-> IF b.arguments.shape = "stats" THEN b.arguments.stats
                        ELSE ZeroStatistics]

\* json.Unmarshal into torrentAdd (part_000:130-133, 143-155).
UnmarshalTorrentAdd(b) ==
    IF b.kind # "object" THEN [err |-> DecodeErr, Result |-> "", TorrentAdded |-> ZeroAdded]
    ELSE [err |-> NoErr,
          Result |-> IF b.hasResult THEN b.result ELSE "",
          TorrentAdded |-> IF b.arguments.shape = "added" THEN b.arguments.added
                           ELSE ZeroAdded]

\* Go's integer division a / b for b > 0: the quotient truncated toward 0.
GoDiv(a, b) == IF a >= 0 THEN a \div b ELSE -((-a) \div b)

\* fmt's %v of an int: its decimal digits, with a minus sign when negative.
Digit(d) == <<"0", "1", "2", "3", "4", "5", "6", "7", "8", "9">>[d + 1]
RECURSIVE DigitsOf(_)
DigitsOf(n) == IF n < 10 THEN <<Digit(n)>> ELSE Append(DigitsOf(n \div 10), Digit(n % 10))
Itoa(n) == IF n < 0 THEN <<"-">> \o DigitsOf(-n) ELSE DigitsOf(n)

\* String, were the speeds shifted right by ten bits instead of divided.
StringShifted(s) ==
    Itoa(s.DownloadSpeed \div 1024) \o <<" KB/s DL, ">>
    \o Itoa(s.UploadSpeed \div 1024) \o <<" KB/s UL, ">>
    \o Itoa(s.TorrentCount) \o <<" torrents (">>
    \o Itoa(s.ActiveTorrentCount) \o <<" active, ">>
    \o Itoa(s.PausedTorrentcount) \o <<" paused)">>

\* Statistics.String (part_000:24-28): the text as its digits and the
\* pieces of the format between them.
String(s) ==
    Itoa(GoDiv(s.DownloadSpeed, 1024)) \o <<" KB/s DL, ">>
    \o Itoa(GoDiv(s.UploadSpeed, 1024)) \o <<" KB/s UL, ">>
    \o Itoa(s.TorrentCount) \o <<" torrents (">>
    \o Itoa(s.ActiveTorrentCount) \o <<" active, ">>
    \o Itoa(s.PausedTorrentcount) \o <<" paused)">>

\* What an operation returns: Stats a *Statistics (nil or not) and an error,
\* Add a name and an error.
Return(hasStats, stats, name, err) ==
    [hasStats |-> hasStats, stats |-> stats, name |-> name, err |-> err]
NoReturn == Return(FALSE, ZeroStatistics, "", NoErr)

\* Stats, were it to return the arguments whatever the result says.
StatsReturnNoCheck(rr) ==
    IF rr.err # NoErr THEN Return(FALSE, ZeroStatistics, "", rr.err)
    ELSE LET r == UnmarshalSessionStats(rr.b)
         IN  IF r.err # NoErr THEN Return(FALSE, ZeroStatistics, "", r.err)
             ELSE Return(TRUE, r.Arguments, "", NoErr)

\* Stats, were it to look at the result before Unmarshal's error.
StatsReturnResultFirst(rr) ==
    IF rr.err # NoErr THEN Return(FALSE, ZeroStatistics, "", rr.err)
    ELSE LET r == UnmarshalSessionStats(rr.b)
         IN  IF r.Result # "success"
             THEN Return(FALSE, ZeroStatistics, "",
                         <<"transmission: result: ", r.Result>>)
             ELSE IF r.err # NoErr THEN Return(FALSE, ZeroStatistics, "", r.err)
                  ELSE Return(TRUE, r.Arguments, "", NoErr)

\* Stats after rpc has returned rr (part_000:100-110).
StatsReturn(rr) ==
    IF rr.err # NoErr THEN Return(FALSE, ZeroStatistics, "", rr.err)
    ELSE LET r == UnmarshalSessionStats(rr.b)
         IN  IF r.err # NoErr THEN Return(FALSE, ZeroStatistics, "", r.err)
             ELSE IF r.Result # "success"
                  THEN Return(FALSE, ZeroStatistics, "",
                              <<"transmission: result: ", r.Result>>)
                  ELSE Return(TRUE, r.Arguments, "", NoErr)

\* Add, were it to trust the envelope's result alone.
AddReturnNoEmptyCheck(rr) ==
    IF rr.err # NoErr THEN Return(FALSE, ZeroStatistics, "", rr.err)
    ELSE LET r == UnmarshalTorrentAdd(rr.b)
         IN  IF r.err # NoErr THEN Return(FALSE, ZeroStatistics, "", r.err)
             ELSE IF r.Result # "success"
                  THEN Return(FALSE, ZeroStatistics, "",
                              <<"transmission: result: ", r.Result>>)
                  ELSE Return(FALSE, ZeroStatistics, r.TorrentAdded.Name, NoErr)

\* Add, were it to look at the name before it looks at the result.
AddReturnNameFirst(rr) ==
    IF rr.err # NoErr THEN Return(FALSE, ZeroStatistics, "", rr.err)
    ELSE LET r == UnmarshalTorrentAdd(rr.b)
         IN  IF r.err # NoErr THEN Return(FALSE, ZeroStatistics, "", r.err)
             ELSE IF r.TorrentAdded.Name = ""
                  THEN Return(FALSE, ZeroStatistics, "",
                              <<"transmission: empty result">>)
                  ELSE IF r.Result # "success"
                       THEN Return(FALSE, ZeroStatistics, "",
                                   <<"transmission: result: ", r.Result>>)
                       ELSE Return(FALSE, ZeroStatistics, r.TorrentAdded.Name, NoErr)

\* Add, were it to hand back the decoded name next to a result error.
AddReturnKeepsName(rr) ==
    IF rr.err # NoErr THEN Return(FALSE, ZeroStatistics, "", rr.err)
    ELSE LET r == UnmarshalTorrentAdd(rr.b)
         IN  IF r.err # NoErr THEN Return(FALSE, ZeroStatistics, "", r.err)
             ELSE IF r.Result # "success"
                  THEN Return(FALSE, ZeroStatistics, r.TorrentAdded.Name,
                              <<"transmission: result: ", r.Result>>)
                  ELSE IF r.TorrentAdded.Name = ""
                       THEN Return(FALSE, ZeroStatistics, "",
                                   <<"transmission: empty result">>)
                       ELSE Return(FALSE, ZeroStatistics, r.TorrentAdded.Name, NoErr)

\* Add after rpc has returned rr (part_000:127-140).
AddReturn(rr) ==
    IF rr.err # NoErr THEN Return(FALSE, ZeroStatistics, "", rr.err)
    ELSE LET r == UnmarshalTorrentAdd(rr.b)
         IN  IF r.err # NoErr THEN Return(FALSE, ZeroStatistics, "", r.err)
             ELSE IF r.Result # "success"
                  THEN Return(FALSE, ZeroStatistics, "",
                              <<"transmission: result: ", r.Result>>)
                  ELSE IF r.TorrentAdded.Name = ""
                       THEN Return(FALSE, ZeroStatistics, "",
                                   <<"transmission: empty result">>)
                       ELSE Return(FALSE, ZeroStatistics, r.TorrentAdded.Name, NoErr)

OpReturn(o, rr) == IF o = "Stats" THEN StatsReturn(rr) ELSE AddReturn(rr)

\* String has not been applied to strIn yet.
NotRendered == <<"not rendered">>

\* sessionId has not been applied to fnIn yet.
NotApplied == [id |-> << >>, err |-> <<"not applied">>]

\* ------------------------------------------------------------------ actions
\* A caller enters an operation; rpc calls sessionId, which issues the
\* probe GET and blocks (part_000:61).
Begin(p, o, u) ==
    /\ pc[p] \in {"idle", "done"}
    /\ calls < MaxCalls
    /\ calls' = calls + 1
    /\ op' = [op EXCEPT ![p] = o]
    /\ arg' = [arg EXCEPT ![p] = u]
    /\ pc' = [pc EXCEPT ![p] = "get_wait"]
    /\ trace' = [trace EXCEPT ![p] = <<"GET">>]
    /\ getReq' = [getReq EXCEPT ![p] = NewGetRequest(conn)]
    /\ getResp' = [getResp EXCEPT ![p] = NoResponse]
    /\ sessId' = [sessId EXCEPT ![p] = << >>]
    /\ postReq' = [postReq EXCEPT ![p] = NoRequest]
    /\ postResp' = [postResp EXCEPT ![p] = NoPostResponse]
    /\ rpcRet' = [rpcRet EXCEPT ![p] = NoRpcRet]
    /\ ret' = [ret EXCEPT ![p] = NoReturn]
    /\ accepted' = [accepted EXCEPT ![p] = FALSE]
    /\ UNCHANGED <<conn, curTok>>

\* Stats (part_000:98-99).
Stats(p) == Begin(p, "Stats", "")

\* Add (part_000:119-126).
Add(p, u) == Begin(p, "Add", u)

\* The remote service answers the probe: with its current token, with an
\* empty header value, or without the header.
ServeProbe(p) ==
    /\ pc[p] = "get_wait"
    /\ \E hdr \in {Header(TRUE, <<TokenOf(curTok)>>), Header(TRUE, << << >> >>), NoHeader} :
          getResp' = [getResp EXCEPT ![p] = GetResult(FALSE, hdr)]
    /\ pc' = [pc EXCEPT ![p] = "get_ready"]
    /\ UNCHANGED <<conn, curTok, op, arg, calls, getReq, sessId, postReq, postResp,
                   rpcRet, ret, trace, accepted>>

\* client.Get fails (part_000:62-64).
ProbeFails(p) ==
    /\ pc[p] = "get_wait"
    /\ getResp' = [getResp EXCEPT ![p] = GetResult(TRUE, NoHeader)]
    /\ pc' = [pc EXCEPT ![p] = "get_ready"]
    /\ UNCHANGED <<conn, curTok, op, arg, calls, getReq, sessId, postReq, postResp,
                   rpcRet, ret, trace, accepted>>

\* RecvProbe, were rpc to keep the first token it fetched in the Conn and
\* reuse it in later calls.
RecvProbeCached(p) ==
    /\ pc[p] = "get_ready"
    /\ LET s == sessionId(getResp[p])
           cached == IF "token" \in DOMAIN conn THEN conn.token ELSE s.id
       IN  IF s.err # NoErr
           THEN /\ rpcRet' = [rpcRet EXCEPT ![p] = RpcFail(s.err)]
                /\ ret' = [ret EXCEPT ![p] = OpReturn(op[p], RpcFail(s.err))]
                /\ pc' = [pc EXCEPT ![p] = "done"]
                /\ trace' = [trace EXCEPT ![p] = Append(@, "GOT")]
                /\ UNCHANGED <<sessId, postReq, conn>>
           ELSE /\ sessId' = [sessId EXCEPT ![p] = cached]
                /\ conn' = [url |-> conn.url, token |-> cached]
                /\ postReq' = [postReq EXCEPT ![p] =
                                  NewPostRequest(conn, cached, RequestOf(op[p], arg[p]))]
                /\ pc' = [pc EXCEPT ![p] = "post_wait"]
                /\ trace' = [trace EXCEPT ![p] = Append(Append(@, "GOT"), "POST")]
                /\ UNCHANGED <<rpcRet, ret>>
    /\ UNCHANGED <<curTok, op, arg, calls, getReq, getResp, postResp, accepted>>

\* RecvProbe, were sessId one variable shared by every caller of the Conn.
RecvProbeShared(p) ==
    /\ pc[p] = "get_ready"
    /\ LET s == sessionId(getResp[p])
       IN  IF s.err # NoErr
           THEN /\ rpcRet' = [rpcRet EXCEPT ![p] = RpcFail(s.err)]
                /\ ret' = [ret EXCEPT ![p] = OpReturn(op[p], RpcFail(s.err))]
                /\ pc' = [pc EXCEPT ![p] = "done"]
                /\ trace' = [trace EXCEPT ![p] = Append(@, "GOT")]
                /\ UNCHANGED <<sessId, postReq>>
           ELSE /\ sessId' = [q \in Procs |-> s.id]
                /\ postReq' = [postReq EXCEPT ![p] =
                                  NewPostRequest(conn, s.id, RequestOf(op[p], arg[p]))]
                /\ pc' = [pc EXCEPT ![p] = "post_wait"]
                /\ trace' = [trace EXCEPT ![p] = Append(Append(@, "GOT"), "POST")]
                /\ UNCHANGED <<rpcRet, ret>>
    /\ UNCHANGED <<conn, curTok, op, arg, calls, getReq, getResp, postResp, accepted>>

\* RecvProbe, were rpc to probe again for as long as sessionId fails.
RecvProbeAgain(p) ==
    /\ pc[p] = "get_ready"
    /\ LET s == sessionId(getResp[p])
       IN  IF s.err # NoErr
           THEN /\ pc' = [pc EXCEPT ![p] = "get_wait"]
                /\ trace' = [trace EXCEPT ![p] = <<"GET">>]
                /\ UNCHANGED <<sessId, postReq, rpcRet, ret>>
           ELSE /\ sessId' = [sessId EXCEPT ![p] = s.id]
                /\ postReq' = [postReq EXCEPT ![p] =
                                  NewPostRequest(conn, s.id, RequestOf(op[p], arg[p]))]
                /\ pc' = [pc EXCEPT ![p] = "post_wait"]
                /\ trace' = [trace EXCEPT ![p] = Append(Append(@, "GOT"), "POST")]
                /\ UNCHANGED <<rpcRet, ret>>
    /\ UNCHANGED <<conn, curTok, op, arg, calls, getReq, getResp, postResp, accepted>>

\* RecvProbe, were rpc to drop sessionId's error and post all the same.
RecvProbeIgnoreErr(p) ==
    /\ pc[p] = "get_ready"
    /\ LET s == sessionId(getResp[p])
       IN  /\ sessId' = [sessId EXCEPT ![p] = s.id]
           /\ postReq' = [postReq EXCEPT ![p] =
                             NewPostRequest(conn, s.id, RequestOf(op[p], arg[p]))]
           /\ pc' = [pc EXCEPT ![p] = "post_wait"]
           /\ trace' = [trace EXCEPT ![p] = Append(Append(@, "GOT"), "POST")]
           /\ UNCHANGED <<rpcRet, ret>>
    /\ UNCHANGED <<conn, curTok, op, arg, calls, getReq, getResp, postResp, accepted>>

\* client.Get returns; sessionId and rpc run on to the POST, or the whole
\* operation returns the session error (part_000:62-89, 100-102, 127-129).
RecvProbe(p) ==
    /\ pc[p] = "get_ready"
    /\ LET s == sessionId(getResp[p])
       IN  IF s.err # NoErr
           THEN /\ rpcRet' = [rpcRet EXCEPT ![p] = RpcFail(s.err)]
                /\ ret' = [ret EXCEPT ![p] = OpReturn(op[p], RpcFail(s.err))]
                /\ pc' = [pc EXCEPT ![p] = "done"]
                /\ trace' = [trace EXCEPT ![p] = Append(@, "GOT")]
                /\ UNCHANGED <<sessId, postReq>>
           ELSE /\ sessId' = [sessId EXCEPT ![p] = s.id]
                /\ postReq' = [postReq EXCEPT ![p] =
                                  NewPostRequest(conn, s.id, RequestOf(op[p], arg[p]))]
                /\ pc' = [pc EXCEPT ![p] = "post_wait"]
                /\ trace' = [trace EXCEPT ![p] = Append(Append(@, "GOT"), "POST")]
                /\ UNCHANGED <<rpcRet, ret>>
    /\ UNCHANGED <<conn, curTok, op, arg, calls, getReq, getResp, postResp, accepted>>

\* The remote service reads the POST: a token that is not its current one
\* is rejected (409, a body that is no envelope); otherwise it answers 200
\* with any body.
ServeRpc(p) ==
    /\ pc[p] = "post_wait"
    /\ LET ok == postReq[p].token = TokenOf(curTok)
       IN  /\ accepted' = [accepted EXCEPT ![p] = ok]
           /\ \E body \in (IF ok THEN Bodies ELSE {Garbage}) :
                 postResp' = [postResp EXCEPT ![p] =
                                 PostResult(FALSE, IF ok THEN 200 ELSE 409, body)]
    /\ pc' = [pc EXCEPT ![p] = "post_ready"]
    /\ UNCHANGED <<conn, curTok, op, arg, calls, getReq, getResp, sessId, postReq, rpcRet,
                   ret, trace>>

\* client.Do or ReadAll fails (part_000:89-94).
RpcFails(p) ==
    /\ pc[p] = "post_wait"
    /\ postResp' = [postResp EXCEPT ![p] = PostResult(TRUE, 0, NilBody)]
    /\ pc' = [pc EXCEPT ![p] = "post_ready"]
    /\ UNCHANGED <<conn, curTok, op, arg, calls, getReq, getResp, sessId, postReq, rpcRet,
                   ret, trace, accepted>>

\* RecvRpc, were rpc to probe for the next token once the POST is answered.
RecvRpcRefetch(p) ==
    /\ pc[p] = "post_ready"
    /\ rpcRet' = [rpcRet EXCEPT ![p] = RpcRead(postResp[p])]
    /\ ret' = [ret EXCEPT ![p] = OpReturn(op[p], RpcRead(postResp[p]))]
    /\ pc' = [pc EXCEPT ![p] = "done"]
    /\ trace' = [trace EXCEPT ![p] = Append(Append(@, "READ"), "GET")]
    /\ UNCHANGED <<conn, curTok, op, arg, calls, getReq, getResp, sessId, postReq, postResp,
                   accepted>>

\* RecvRpc, were rpc to start over when the service rejects the token.
RecvRpcRetry(p) ==
    /\ pc[p] = "post_ready"
    /\ IF ~postResp[p].failed /\ postResp[p].status = 409
       THEN /\ pc' = [pc EXCEPT ![p] = "get_wait"]
            /\ trace' = [trace EXCEPT ![p] = Append(Append(@, "READ"), "GET")]
            /\ UNCHANGED <<rpcRet, ret>>
       ELSE /\ rpcRet' = [rpcRet EXCEPT ![p] = RpcRead(postResp[p])]
            /\ ret' = [ret EXCEPT ![p] = OpReturn(op[p], RpcRead(postResp[p]))]
            /\ pc' = [pc EXCEPT ![p] = "done"]
            /\ trace' = [trace EXCEPT ![p] = Append(@, "READ")]
    /\ UNCHANGED <<conn, curTok, op, arg, calls, getReq, getResp, sessId, postReq, postResp,
                   accepted>>

\* rpc returns and the operation decodes and returns (part_000:89-110,
\* 127-140).
RecvRpc(p) ==
    /\ pc[p] = "post_ready"
    /\ rpcRet' = [rpcRet EXCEPT ![p] = RpcRead(postResp[p])]
    /\ ret' = [ret EXCEPT ![p] = OpReturn(op[p], RpcRead(postResp[p]))]
    /\ pc' = [pc EXCEPT ![p] = "done"]
    /\ trace' = [trace EXCEPT ![p] = Append(@, "READ")]
    /\ UNCHANGED <<conn, curTok, op, arg, calls, getReq, getResp, sessId, postReq, postResp,
                   accepted>>

\* The remote service replaces its session token.
Rotate ==
    /\ \E t \in 1..NumTokens : t # curTok /\ curTok' = t
    /\ UNCHANGED <<conn, pc, op, arg, calls, getReq, getResp, sessId, postReq, postResp,
                   rpcRet, ret, trace, accepted>>

Init ==
    /\ conn \in {New(e) : e \in Endpoints}
    /\ curTok = 1
    /\ pc = [p \in Procs |-> "idle"]
    /\ op = [p \in Procs |-> "Stats"]
    /\ arg = [p \in Procs |-> ""]
    /\ calls = 0
    /\ getReq = [p \in Procs |-> NoGetRequest]
    /\ getResp = [p \in Procs |-> NoResponse]
    /\ sessId = [p \in Procs |-> << >>]
    /\ postReq = [p \in Procs |-> NoRequest]
    /\ postResp = [p \in Procs |-> NoPostResponse]
    /\ rpcRet = [p \in Procs |-> NoRpcRet]
    /\ ret = [p \in Procs |-> NoReturn]
    /\ trace = [p \in Procs |-> << >>]
    /\ accepted = [p \in Procs |-> FALSE]
    /\ fnIn = NoResponse
    /\ fnOut = NotApplied
    /\ strIn = ZeroStatistics
    /\ strOut = NotRendered

Next ==
    \/ \E p \in Procs : Stats(p) /\ UNCHANGED <<fnIn, fnOut, strIn, strOut>>
    \/ \E p \in Procs, u \in Urls : Add(p, u) /\ UNCHANGED <<fnIn, fnOut, strIn, strOut>>
    \/ \E p \in Procs : ServeProbe(p) /\ UNCHANGED <<fnIn, fnOut, strIn, strOut>>
    \/ \E p \in Procs : ProbeFails(p) /\ UNCHANGED <<fnIn, fnOut, strIn, strOut>>
    \/ \E p \in Procs : RecvProbe(p) /\ UNCHANGED <<fnIn, fnOut, strIn, strOut>>
    \/ \E p \in Procs : ServeRpc(p) /\ UNCHANGED <<fnIn, fnOut, strIn, strOut>>
    \/ \E p \in Procs : RpcFails(p) /\ UNCHANGED <<fnIn, fnOut, strIn, strOut>>
    \/ \E p \in Procs : RecvRpc(p) /\ UNCHANGED <<fnIn, fnOut, strIn, strOut>>
    \/ Rotate /\ UNCHANGED <<fnIn, fnOut, strIn, strOut>>

Spec == Init /\ [][Next]_vars

\* The same, with the scheduling the calls run under: a caller whose
\* client.Get or client.Do has returned goes on running, and the remote
\* service (or the transport) ends every request it was sent, by an answer
\* or by a failure.
pureVars == <<fnIn, fnOut, strIn, strOut>>

SpecLive ==
    /\ Init
    /\ [][Next]_vars
    /\ \A p \in Procs :
          /\ WF_vars(RecvProbe(p) /\ UNCHANGED pureVars)
          /\ WF_vars(RecvRpc(p) /\ UNCHANGED pureVars)
          /\ WF_vars((ServeProbe(p) \/ ProbeFails(p)) /\ UNCHANGED pureVars)
          /\ WF_vars((ServeRpc(p) \/ RpcFails(p)) /\ UNCHANGED pureVars)

\* ------------------------------------------------- sessionId on its own
\* Every sequence of at most n header values.
RECURSIVE ValuesUpTo(_)
ValuesUpTo(n) ==
    IF n = 0 THEN {<< >>}
    ELSE LET shorter == ValuesUpTo(n - 1)
         IN  shorter \cup {Append(vs, t) : vs \in shorter, t \in StrUpTo(MaxTokLen)}

\* What client.Get can hand to sessionId: an error, a response without the
\* header key, or a response with any values stored under the key.
SessionInputs ==
    {GetResult(TRUE, NoHeader), GetResult(FALSE, NoHeader)}
    \cup {GetResult(FALSE, Header(TRUE, vs)) : vs \in ValuesUpTo(MaxValues)}

InitSession ==
    /\ conn \in {New(e) : e \in Endpoints}
    /\ curTok = 1
    /\ pc = [p \in Procs |-> "idle"]
    /\ op = [p \in Procs |-> "Stats"]
    /\ arg = [p \in Procs |-> ""]
    /\ calls = 0
    /\ getReq = [p \in Procs |-> NoGetRequest]
    /\ getResp = [p \in Procs |-> NoResponse]
    /\ sessId = [p \in Procs |-> << >>]
    /\ postReq = [p \in Procs |-> NoRequest]
    /\ postResp = [p \in Procs |-> NoPostResponse]
    /\ rpcRet = [p \in Procs |-> NoRpcRet]
    /\ ret = [p \in Procs |-> NoReturn]
    /\ trace = [p \in Procs |-> << >>]
    /\ accepted = [p \in Procs |-> FALSE]
    /\ fnIn \in SessionInputs
    /\ fnOut = NotApplied
    /\ strIn = ZeroStatistics
    /\ strOut = NotRendered

\* sessionId runs on the response it was given (part_000:60-71).
ApplySessionId ==
    /\ fnOut = NotApplied
    /\ fnOut' = sessionId(fnIn)
    /\ UNCHANGED <<fnIn, strIn, strOut, callVars>>

NextSession == ApplySessionId

SpecSession == InitSession /\ [][NextSession]_vars

\* ---------------------------------------------- Statistics.String on its own
SpeedSamples == {-1025, -1, 0, 1023, 1024, 1048576}
CountSamples == -1..MaxCount

StringInputs ==
    {Statistics(dl, ul, n, act, paused) :
        dl \in SpeedSamples, ul \in SpeedSamples,
        n \in CountSamples, act \in CountSamples, paused \in CountSamples}

InitString ==
    /\ conn \in {New(e) : e \in Endpoints}
    /\ curTok = 1
    /\ pc = [p \in Procs |-> "idle"]
    /\ op = [p \in Procs |-> "Stats"]
    /\ arg = [p \in Procs |-> ""]
    /\ calls = 0
    /\ getReq = [p \in Procs |-> NoGetRequest]
    /\ getResp = [p \in Procs |-> NoResponse]
    /\ sessId = [p \in Procs |-> << >>]
    /\ postReq = [p \in Procs |-> NoRequest]
    /\ postResp = [p \in Procs |-> NoPostResponse]
    /\ rpcRet = [p \in Procs |-> NoRpcRet]
    /\ ret = [p \in Procs |-> NoReturn]
    /\ trace = [p \in Procs |-> << >>]
    /\ accepted = [p \in Procs |-> FALSE]
    /\ fnIn = NoResponse
    /\ fnOut = NotApplied
    /\ strIn \in StringInputs
    /\ strOut = NotRendered

\* String runs on the Statistics it was given (part_000:24-28).
ApplyString ==
    /\ strOut = NotRendered
    /\ strOut' = String(strIn)
    /\ UNCHANGED <<strIn, fnIn, fnOut, callVars>>

NextString == ApplyString

SpecString == InitString /\ [][NextString]_vars

\* ------------------------------------------------------------------ claims
Range(tr) == {tr[i] : i \in DOMAIN tr}
CountOf(tr, e) == Cardinality({i \in DOMAIN tr : tr[i] = e})

\* The current call of p has put its POST on the wire.
Posted(p) == "POST" \in Range(trace[p])

\* The probe of p's current call was answered with a header that has a
\* first value.
ProbeHasValue(p) ==
    /\ ~getResp[p].failed
    /\ getResp[p].header.present
    /\ Len(getResp[p].header.values) >= 1

\* The result member as json.Unmarshal leaves it in r.Result.
ResultOf(b) == IF b.hasResult THEN b.result ELSE ""

\* The torrent-added name as json.Unmarshal leaves it.
NameOf(b) == IF b.arguments.shape = "added" THEN b.arguments.added.Name ELSE ""

\* C1: the token in the X-Transmission-Session-Id header of a call's POST
\* is exactly the first header value of the probe answer of that same call
\* (getResp and postReq hold the current call's probe answer and POST only).
C1_PostCarriesOwnProbeToken ==
    \A p \in Procs :
        Posted(p) =>
            /\ ProbeHasValue(p)
            /\ postReq[p].verb = "POST"
            /\ postReq[p].token = getResp[p].header.values[1]

\* C1 witness: one caller made both calls on the Conn (the other never
\* started), and its second call's POST carries the service's second token.
C1_Witness ==
    \E p \in Procs :
        /\ calls = 2
        /\ \A q \in Procs \ {p} : pc[q] = "idle"
        /\ pc[p] = "post_wait"
        /\ postReq[p].token = TokenOf(2)

\* C2: a call whose probe and POST both went through has issued exactly
\* GET, then (after its answer) POST, and nothing after the POST; in every
\* state a POST in the trace directly follows the probe's answer and no
\* request follows it.
C2_OneGetThenOnePost ==
    \A p \in Procs :
        /\ (pc[p] = "done" /\ rpcRet[p].err = NoErr) =>
               trace[p] = <<"GET", "GOT", "POST", "READ">>
        /\ \A i \in DOMAIN trace[p] :
               trace[p][i] = "POST" =>
                   /\ i = 3
                   /\ trace[p][1] = "GET" /\ trace[p][2] = "GOT"
                   /\ \A j \in DOMAIN trace[p] : j > i => trace[p][j] = "READ"

\* C2 witness: a Stats and an Add call have both returned without error.
C2_Witness ==
    \E p, q \in Procs :
        /\ pc[p] = "done" /\ op[p] = "Stats" /\ ret[p].err = NoErr
        /\ pc[q] = "done" /\ op[q] = "Add" /\ ret[q].err = NoErr

\* C3 as stated: whenever the service reads the POST of a call whose probe
\* it answered with a token, that POST's token is the one it accepts then.
C3_NeverStale ==
    \A p \in Procs :
        (/\ pc[p] \in {"post_ready", "done"}
         /\ Posted(p)
         /\ ~postResp[p].failed
         /\ getResp[p].header.values[1] # << >>) => accepted[p]

\* C3 amended: the POST's token is accepted when the service reads it
\* provided the token the service gave in its probe answer is still its
\* current token at that moment.
C3_FreshUnlessRotated ==
    [][\A p \in Procs :
          (/\ pc[p] = "post_wait"
           /\ pc'[p] = "post_ready"
           /\ ~postResp'[p].failed
           /\ getResp[p].header.values = <<TokenOf(curTok)>>) => accepted'[p]]_vars

\* C3 witness: the service had rotated to its second token before the
\* probe, and the POST carrying that token was accepted.
C3_Witness ==
    \E p \in Procs :
        /\ pc[p] = "post_ready"
        /\ accepted[p]
        /\ postReq[p].token = TokenOf(2)

\* C4: once the probe is answered without the header, or with an empty
\* header value, the call ends with the session error and no token is used.
C4_EmptyTokenIsAnError ==
    \A p \in Procs :
        (/\ pc[p] \in {"post_wait", "post_ready", "done"}
         /\ ~getResp[p].failed
         /\ \/ ~getResp[p].header.present
            \/ Len(getResp[p].header.values) < 1
            \/ getResp[p].header.values[1] = << >>)
        => /\ pc[p] = "done"
           /\ ret[p].err = <<"transmission: sessionId not found">>
           /\ ~Posted(p)

\* C5: for a response whose header has a non-empty first value, sessionId
\* returns that value character for character, and no error.
C5_TokenVerbatim ==
    (/\ fnOut # NotApplied
     /\ ~fnIn.failed
     /\ fnIn.header.present
     /\ Len(fnIn.header.values) >= 1
     /\ fnIn.header.values[1] # << >>)
    => fnOut = [id |-> fnIn.header.values[1], err |-> NoErr]

\* C5 witness: sessionId has returned a token with a leading blank and an
\* upper-case letter.
C5_Witness ==
    /\ fnOut # NotApplied
    /\ fnIn.header.present
    /\ fnOut.id = <<" ", "A">>

\* C6: no call issues more than one GET or more than one POST, and a call
\* whose probe failed, whose POST failed or whose token was rejected
\* returns an error.
C6_NoRetry ==
    \A p \in Procs :
        /\ CountOf(trace[p], "GET") <= 1
        /\ CountOf(trace[p], "POST") <= 1
        /\ (/\ pc[p] = "done"
            /\ \/ sessionId(getResp[p]).err # NoErr
               \/ postResp[p].failed
               \/ ~accepted[p]) => ret[p].err # NoErr

\* C6 witness: a call whose token the service rejected has returned.
C6_Witness ==
    \E p \in Procs :
        /\ pc[p] = "done"
        /\ Posted(p)
        /\ postResp[p].status = 409
        /\ ret[p].err # NoErr

\* C7: when sessionId fails (transport error, or no header value), rpc
\* returns that error with nil bytes, the operation returns it, and no POST
\* is sent.
C7_SessionFailsFast ==
    \A p \in Procs :
        (/\ pc[p] \in {"post_wait", "post_ready", "done"}
         /\ sessionId(getResp[p]).err # NoErr)
        => /\ pc[p] = "done"
           /\ rpcRet[p] = [b |-> NilBody, err |-> sessionId(getResp[p]).err]
           /\ ret[p].err = sessionId(getResp[p]).err
           /\ ~Posted(p)
           /\ postReq[p] = NoRequest

\* C7 witness: one call ended on a transport failure of the probe, another
\* on a probe answer without the header.
C7_Witness ==
    \E p, q \in Procs :
        /\ pc[p] = "done" /\ getResp[p].failed /\ ret[p].err = TransportErr
        /\ pc[q] = "done" /\ ~getResp[q].failed /\ ~getResp[q].header.present
        /\ ret[q].err = <<"transmission: sessionId not found">>

\* C8: a step of one caller leaves every other caller's call state and the
\* Conn as they were, and the POST it sends carries the token of its own
\* probe answer.
C8_IndependentlySessioned ==
    [][\A p \in Procs :
          pc'[p] # pc[p] =>
              /\ conn' = conn
              /\ \A q \in Procs \ {p} :
                    /\ sessId'[q] = sessId[q]
                    /\ getResp'[q] = getResp[q]
                    /\ postReq'[q] = postReq[q]
                    /\ postResp'[q] = postResp[q]
                    /\ rpcRet'[q] = rpcRet[q]
                    /\ ret'[q] = ret[q]
              /\ pc'[p] = "post_wait" =>
                    /\ postReq'[p].token = getResp[p].header.values[1]
                    /\ sessId'[p] = getResp[p].header.values[1]]_vars

\* C8 witness: two calls are in flight at once, each with a POST on the
\* wire, and their tokens differ.
C8_Witness ==
    \E p, q \in Procs :
        /\ p # q
        /\ pc[p] = "post_wait" /\ pc[q] = "post_wait"
        /\ postReq[p].token = TokenOf(1)
        /\ postReq[q].token = TokenOf(2)

\* C9: Stats returns without error exactly when the session step, the POST
\* and the decoding succeeded and result is "success", and then returns the
\* decoded Statistics; for any other result it returns nil and the error
\* text "transmission: result: " followed by the result string as received.
C9_StatsResult ==
    \A p \in Procs :
        (pc[p] = "done" /\ op[p] = "Stats") =>
            LET b == postResp[p].body
                reached == Posted(p) /\ ~postResp[p].failed /\ b.kind = "object"
            IN  /\ ret[p].err = NoErr <=> (reached /\ ResultOf(b) = "success")
                /\ ret[p].err = NoErr =>
                       /\ ret[p].hasStats
                       /\ ret[p].stats = UnmarshalSessionStats(b).Arguments
                /\ (reached /\ ResultOf(b) # "success") =>
                       /\ ~ret[p].hasStats
                       /\ ret[p].err = <<"transmission: result: ", ResultOf(b)>>

\* C9 witness: Stats has returned the error for result "failure".
C9_Witness ==
    \E p \in Procs :
        /\ pc[p] = "done" /\ op[p] = "Stats"
        /\ postResp[p].body = Envelope(TRUE, "failure", NoArguments)
        /\ ret[p].err = <<"transmission: result: ", "failure">>

\* C10: when the envelope says "success" and the decoded torrent-added name
\* is empty, Add returns the error "transmission: empty result" and no name.
C10_AddEmptyName ==
    \A p \in Procs :
        (/\ pc[p] = "done" /\ op[p] = "Add"
         /\ Posted(p) /\ ~postResp[p].failed
         /\ postResp[p].body.kind = "object"
         /\ ResultOf(postResp[p].body) = "success"
         /\ NameOf(postResp[p].body) = "")
        => /\ ret[p].err = <<"transmission: empty result">>
           /\ ret[p].name = ""

\* C10 witness: Add has returned "empty result" for a success envelope
\* whose torrent-added object has an empty Name.
C10_Witness ==
    \E p \in Procs :
        /\ pc[p] = "done" /\ op[p] = "Add"
        /\ postResp[p].body.result = "success"
        /\ postResp[p].body.arguments.shape = "added"
        /\ postResp[p].body.arguments.added.Name = ""
        /\ ret[p].err = <<"transmission: empty result">>

\* The POST of p's current call was answered and its body is a JSON
\* envelope that json.Unmarshal accepts.
Decoded(p) ==
    /\ Posted(p)
    /\ ~postResp[p].failed
    /\ postResp[p].body.kind = "object"

\* C11: when the envelope's result is not "success", Add returns the error
\* text "transmission: result: " followed by the result string as received
\* and no name, also when the torrent-added name is empty or missing.
C11_AddResultError ==
    \A p \in Procs :
        (/\ pc[p] = "done" /\ op[p] = "Add"
         /\ Decoded(p)
         /\ ResultOf(postResp[p].body) # "success")
        => /\ ret[p].err = <<"transmission: result: ", ResultOf(postResp[p].body)>>
           /\ ret[p].err # <<"transmission: empty result">>
           /\ ret[p].name = ""

\* C11 witness: Add has returned the error for "duplicate torrent" on the
\* envelope {"result":"duplicate torrent","arguments":{}}.
C11_Witness ==
    \E p \in Procs :
        /\ pc[p] = "done" /\ op[p] = "Add"
        /\ postResp[p].body = Envelope(TRUE, "duplicate torrent", NoArguments)
        /\ ret[p].err = <<"transmission: result: ", "duplicate torrent">>

\* C12: Add returns without error exactly when the session step, the POST
\* and the decoding succeeded, result is "success" and the torrent-added
\* name is not empty; it then returns that name, and with any error it
\* returns the empty name.
C12_AddReturnsName ==
    \A p \in Procs :
        (pc[p] = "done" /\ op[p] = "Add") =>
            LET b == postResp[p].body
            IN  /\ ret[p].err = NoErr <=>
                       (Decoded(p) /\ ResultOf(b) = "success" /\ NameOf(b) # "")
                /\ ret[p].err = NoErr => ret[p].name = NameOf(b)
                /\ ret[p].err # NoErr => ret[p].name = ""

\* C12 witness: Add has returned "Ubuntu.iso" without error.
C12_Witness ==
    \E p \in Procs :
        /\ pc[p] = "done" /\ op[p] = "Add"
        /\ postResp[p].body.arguments.added =
               [Id |-> 1, Name |-> "Ubuntu.iso", HashString |-> "abc123"]
        /\ ret[p] = Return(FALSE, ZeroStatistics, "Ubuntu.iso", NoErr)

\* C13 as stated: the JSON body of every POST has the key "method" and the
\* key "arguments".
C13_MethodAndArguments ==
    \A p \in Procs :
        Posted(p) => {"method", "arguments"} \subseteq postReq[p].body.keys

\* C13 amended: the JSON body of every POST has the key "method"; it has
\* the key "arguments" exactly when the operation is Add.
C13_MethodAlwaysArgumentsForAdd ==
    \A p \in Procs :
        Posted(p) =>
            /\ "method" \in postReq[p].body.keys
            /\ "arguments" \in postReq[p].body.keys <=> op[p] = "Add"
            /\ postReq[p].body.keys \subseteq {"method", "arguments"}

\* C13 witness: a Stats POST with the one key "method" and an Add POST
\* with both keys are on the wire.
C13_Witness ==
    \E p, q \in Procs :
        /\ pc[p] = "post_wait" /\ op[p] = "Stats"
        /\ postReq[p].body.keys = {"method"}
        /\ pc[q] = "post_wait" /\ op[q] = "Add"
        /\ postReq[q].body.keys = {"method", "arguments"}

\* C14: the POST of Add has method "torrent-add" and the arguments
\* paused = false, filename = the url Add was called with; the POST of
\* Stats has method "session-stats"; a call sends one POST at most, and
\* exactly one when rpc returns without error.
C14_RequestContents ==
    \A p \in Procs :
        /\ CountOf(trace[p], "POST") <= 1
        /\ (pc[p] = "done" /\ rpcRet[p].err = NoErr) => CountOf(trace[p], "POST") = 1
        /\ Posted(p) =>
               /\ postReq[p].verb = "POST"
               /\ IF op[p] = "Add"
                  THEN /\ postReq[p].body.method = "torrent-add"
                       /\ "arguments" \in postReq[p].body.keys
                       /\ postReq[p].body.arguments =
                              [paused |-> FALSE, filename |-> arg[p]]
                  ELSE /\ op[p] = "Stats"
                       /\ postReq[p].body.method = "session-stats"

\* C14 witness: two Add calls with different urls each have their POST on
\* the wire, each carrying its own url as filename.
C14_Witness ==
    \E p, q \in Procs :
        /\ pc[p] = "post_wait" /\ op[p] = "Add"
        /\ postReq[p].body.arguments.filename = "magnet:x"
        /\ pc[q] = "post_wait" /\ op[q] = "Add"
        /\ postReq[q].body.arguments.filename = "http://t/u.torrent"

\* The quotient of x by 1024 truncated toward zero, by its defining
\* property: k * 1024 is the multiple of 1024 nearest to x between 0 and x.
Truncated(x) ==
    LET m == (IF x >= 0 THEN x ELSE -x) \div 1024 + 1
    IN  CHOOSE k \in -m..m :
            \/ x >= 0 /\ k * 1024 <= x /\ x < (k + 1) * 1024
            \/ x < 0 /\ k * 1024 >= x /\ x > (k - 1) * 1024

\* C15: String renders the download and the upload speed as the quotient
\* by 1024 truncated toward zero, then the torrent, active and paused
\* counts unchanged, in that order; for 1048576, 0, 3, 1, 2 the text is
\* "1024 KB/s DL, 0 KB/s UL, 3 torrents (1 active, 2 paused)".
C15_StringRendering ==
    strOut # NotRendered =>
        /\ strOut = Itoa(Truncated(strIn.DownloadSpeed)) \o <<" KB/s DL, ">>
                    \o Itoa(Truncated(strIn.UploadSpeed)) \o <<" KB/s UL, ">>
                    \o Itoa(strIn.TorrentCount) \o <<" torrents (">>
                    \o Itoa(strIn.ActiveTorrentCount) \o <<" active, ">>
                    \o Itoa(strIn.PausedTorrentcount) \o <<" paused)">>
        /\ strIn = Statistics(1048576, 0, 3, 1, 2) =>
               strOut = <<"1", "0", "2", "4", " KB/s DL, ", "0", " KB/s UL, ",
                          "3", " torrents (", "1", " active, ", "2", " paused)">>
        /\ strIn = Statistics(-1025, 1023, 0, 0, 0) =>
               strOut = <<"-", "1", " KB/s DL, ", "0", " KB/s UL, ",
                          "0", " torrents (", "0", " active, ", "0", " paused)">>

\* C15 witness: String has rendered the Statistics 1048576, 0, 3, 1, 2.
C15_Witness ==
    /\ strIn = Statistics(1048576, 0, 3, 1, 2)
    /\ strOut # NotRendered
    /\ Head(strOut) = "1" /\ Len(strOut) = 13

\* C16: when the POST is answered at the transport level, rpc returns the
\* answer's body as it is and no error, whatever the status; the body of a
\* 409 rejection goes to the decoder, which fails on it like on any body
\* that is no envelope.
C16_BodyWhateverStatus ==
    \A p \in Procs :
        (pc[p] = "done" /\ Posted(p) /\ ~postResp[p].failed) =>
            /\ rpcRet[p] = [b |-> postResp[p].body, err |-> NoErr]
            /\ ret[p] = OpReturn(op[p], [b |-> postResp[p].body, err |-> NoErr])
            /\ postResp[p].status = 409 => ret[p].err = DecodeErr

\* C16 witness: rpc has returned the body of a 409 answer without error.
C16_Witness ==
    \E p \in Procs :
        /\ pc[p] = "done"
        /\ postResp[p].status = 409
        /\ rpcRet[p] = [b |-> Garbage, err |-> NoErr]

\* C17: when the body is not a decodable envelope, Stats and Add return
\* the decoding error, no Statistics and no name.
C17_DecodeErrorFirst ==
    \A p \in Procs :
        (/\ pc[p] = "done" /\ Posted(p) /\ ~postResp[p].failed
         /\ postResp[p].body.kind # "object")
        => ret[p] = Return(FALSE, ZeroStatistics, "", DecodeErr)

\* C17 witness: Stats has returned the decoding error for a body that is
\* no JSON, Add for a JSON body whose members have the wrong type.
C17_Witness ==
    \E p, q \in Procs :
        /\ pc[p] = "done" /\ op[p] = "Stats"
        /\ postResp[p].status = 200 /\ postResp[p].body = Garbage
        /\ ret[p].err = DecodeErr
        /\ pc[q] = "done" /\ op[q] = "Add"
        /\ postResp[q].body = Mistyped
        /\ ret[q].err = DecodeErr

NonNegative(st) ==
    /\ st.DownloadSpeed >= 0 /\ st.UploadSpeed >= 0
    /\ st.TorrentCount >= 0 /\ st.ActiveTorrentCount >= 0
    /\ st.PausedTorrentcount >= 0

\* C18 as stated: every Statistics that Stats returns without error has
\* five non-negative fields.
C18_StatsNonNegative ==
    \A p \in Procs :
        (pc[p] = "done" /\ op[p] = "Stats" /\ ret[p].err = NoErr) =>
            NonNegative(ret[p].stats)

\* C18 amended: the Statistics that Stats returns without error has the
\* five integers of the envelope's arguments as received (zero where the
\* envelope has no statistics), so they are non-negative when the
\* envelope's are.
C18_StatsAsReceived ==
    \A p \in Procs :
        (pc[p] = "done" /\ op[p] = "Stats" /\ ret[p].err = NoErr) =>
            LET a == postResp[p].body.arguments
            IN  /\ a.shape = "stats" => ret[p].stats = a.stats
                /\ a.shape # "stats" => ret[p].stats = ZeroStatistics
                /\ NonNegative(a.stats) => NonNegative(ret[p].stats)

\* C18 witness: Stats has returned, without error, the Statistics of the
\* envelope, one of them negative.
C18_Witness ==
    \E p \in Procs :
        /\ pc[p] = "done" /\ op[p] = "Stats" /\ ret[p].err = NoErr
        /\ postResp[p].body.arguments.shape = "stats"
        /\ ret[p].stats = Statistics(-1, 2047, 0, 0, -2)

\* p is inside a call, blocked in client.Get or client.Do.
Waiting(p) == pc[p] \in {"get_wait", "post_wait"}

\* C19: a started call returns once the remote service has answered or
\* failed each request of the call; while a request is unanswered the
\* caller has no step of its own (no deadline ends the wait), so only the
\* remote service or the transport can end it.
C19_ReturnsIfAnswered ==
    /\ \A p \in Procs : (pc[p] \notin {"idle", "done"}) ~> (pc[p] = "done")
    /\ [](\A p \in Procs :
             Waiting(p) => ~ENABLED (RecvProbe(p) \/ RecvRpc(p) \/ Stats(p)))

\* C19 witness: a call whose probe and POST were each answered has
\* returned, while another call is still blocked on its POST.
C19_Witness ==
    \E p, q \in Procs :
        /\ pc[p] = "done" /\ trace[p] = <<"GET", "GOT", "POST", "READ">>
        /\ pc[q] = "post_wait"

\* C20: the Conn is what New returned, in every state: its url never
\* changes and it has no other field (no token is kept in it), whatever the
\* calls did; every GET and every POST goes to the Conn's url followed by
\* /transmission/rpc.
C20_ConnUnchanged ==
    /\ [][conn' = conn]_vars
    /\ [](/\ conn \in {New(e) : e \in Endpoints}
          /\ DOMAIN conn = {"url"}
          /\ \A p \in Procs :
                /\ pc[p] # "idle" =>
                       getReq[p] = [verb |-> "GET",
                                    target |-> <<conn.url, "/transmission/rpc">>]
                /\ Posted(p) =>
                       postReq[p].target = <<conn.url, "/transmission/rpc">>)

\* C20 witness: after one call that failed and one that succeeded, the
\* Conn still has the url it was made with.
C20_Witness ==
    \E p, q \in Procs :
        /\ pc[p] = "done" /\ ret[p].err # NoErr
        /\ pc[q] = "done" /\ ret[q].err = NoErr
        /\ conn = New("http://host:9091")
        /\ postReq[q].target = <<"http://host:9091", "/transmission/rpc">>

====
